---- MODULE Spec2Model ----
(***************************************************************************)
(* A model of shapeshiftio.ShapeShiftIO, the urllib-based client of the    *)
(* ShapeShift REST API.  One client instance is shared by a set of caller  *)
(* threads.  Every method writes the URL it builds to the instance         *)
(* attribute self.url and then reads that attribute back as the argument   *)
(* of get_request / post_request; the two halves are separate steps of a   *)
(* call, so that other callers' steps may fall between them.               *)
(*                                                                         *)
(* Strings are TLA+ strings handled character by character (Len, SubSeq,   *)
(* \o), so that str(), urlencode() and json.loads() are computed rather    *)
(* than assumed.  Inputs are restricted to printable ASCII without         *)
(* backslashes; urllib's redirect handling, timeouts and character sets    *)
(* other than ASCII are outside the model.                                 *)
(***************************************************************************)
EXTENDS Integers, Sequences, FiniteSets, TLC

VARIABLES attrs, pc, call, pre, req, nsent, resp, result, round, first

vars == <<attrs, pc, call, pre, req, nsent, resp, result, round, first>>

(***************************************************************************)
(* Characters and strings                                                  *)
(***************************************************************************)
Ch(s, p) == IF p >= 1 /\ p <= Len(s) THEN SubSeq(s, p, p) ELSE ""

InStr(c, s) == \E i \in 1..Len(s) : SubSeq(s, i, i) = c

Drop(s, p) == SubSeq(s, p, Len(s))

Digits == "0123456789"

Letters == "ABCDEFGHIJKLMNOPQRSTUVWXYZabcdefghijklmnopqrstuvwxyz"

\* Printable ASCII, code points 32..126 in order.  A TLA+ string cannot hold
\* a backquote (code 96): a tab keeps its place and no input contains one.
Printable == " !\"#$%&'()*+,-./0123456789:;<=>?@ABCDEFGHIJKLMNOPQRSTUVWXYZ[\\]^_\tabcdefghijklmnopqrstuvwxyz{|}~"

Ord(c) == 31 + (CHOOSE i \in 1..Len(Printable) : SubSeq(Printable, i, i) = c)

Chr(n) == Ch(Printable, n - 31)

HexDigits == "0123456789ABCDEF"

Hex2(n) == Ch(HexDigits, (n \div 16) + 1) \o Ch(HexDigits, (n % 16) + 1)

(***************************************************************************)
(* str(int): decimal digits, "-" in front of a negative number.            *)
(***************************************************************************)
RECURSIVE StrNat(_)
StrNat(n) == IF n < 10 THEN Ch(Digits, n + 1)
             ELSE StrNat(n \div 10) \o Ch(Digits, (n % 10) + 1)

Str(n) == IF n < 0 THEN "-" \o StrNat(0 - n) ELSE StrNat(n)

(***************************************************************************)
(* urllib.parse.quote_plus and urlencode (of a mapping, doseq=False).      *)
(***************************************************************************)
AlwaysSafe == Letters \o Digits \o "_.-~"

QuoteChar(c) == IF InStr(c, AlwaysSafe) THEN c
                ELSE IF c = " " THEN "+"
                ELSE "%" \o Hex2(Ord(c))

RECURSIVE quote_plus(_)
quote_plus(s) == IF Len(s) = 0 THEN ""
                 ELSE QuoteChar(Ch(s, 1)) \o quote_plus(Drop(s, 2))

\* A value of a parameter mapping: a str or an int.
SVal(s) == [k |-> "str", s |-> s, n |-> 0]

NVal(n) == [k |-> "int", s |-> "", n |-> n]

StrOf(v) == IF v.k = "int" THEN Str(v.n) ELSE v.s

\* Field without quoting: the body put together by plain concatenation.
Field_Unquoted(kv) == kv[1] \o "=" \o StrOf(kv[2])

Field(kv) == quote_plus(kv[1]) \o "=" \o quote_plus(StrOf(kv[2]))

RECURSIVE JoinAmp(_)
JoinAmp(fs) == IF Len(fs) = 0 THEN ""
               ELSE IF Len(fs) = 1 THEN fs[1]
               ELSE fs[1] \o "&" \o JoinAmp(Tail(fs))

\* postdata is the mapping as the sequence of its items, in dict order.
urlencode(postdata) == JoinAmp([i \in 1..Len(postdata) |-> Field(postdata[i])])

(***************************************************************************)
(* json.loads on the text of a response body.  Decoded values are tagged:  *)
(* dict "obj" (its items in order), list "arr", str "str", int/float "num" *)
(* (the literal's text), True/False/None "lit".  Exponents and backslash   *)
(* escapes do not occur in the bodies drawn here and are not scanned.      *)
(***************************************************************************)
JStr(s) == [t |-> "str", v |-> s]

JNum(s) == [t |-> "num", v |-> s]

JLit(s) == [t |-> "lit", v |-> s]

JArr(xs) == [t |-> "arr", v |-> xs]

JObj(items) == [t |-> "obj", v |-> items]

Fail == [ok |-> FALSE, v |-> <<>>, p |-> 0]

Ok(val, p) == [ok |-> TRUE, v |-> <<val>>, p |-> p]

StartsAt(s, p, w) == /\ p + Len(w) - 1 <= Len(s)
                     /\ SubSeq(s, p, p + Len(w) - 1) = w

RECURSIVE SkipWs(_, _)
SkipWs(s, p) == IF p <= Len(s) /\ InStr(Ch(s, p), " \t\n\r")
                THEN SkipWs(s, p + 1) ELSE p

RECURSIVE ScanDigits(_, _)
ScanDigits(s, p) == IF p <= Len(s) /\ InStr(Ch(s, p), Digits)
                    THEN ScanDigits(s, p + 1) ELSE p

RECURSIVE ScanQuote(_, _)
ScanQuote(s, p) == IF p > Len(s) THEN 0
                   ELSE IF Ch(s, p) = "\"" THEN p
                   ELSE ScanQuote(s, p + 1)

\* p is at the opening quote.
ParseString(s, p) ==
    LET q == ScanQuote(s, p + 1)
    IN  IF q = 0 THEN Fail ELSE Ok(JStr(SubSeq(s, p + 1, q - 1)), q + 1)

\* -?(0|[1-9][0-9]*)(\.[0-9]+)?
ParseNumber(s, p) ==
    LET i0 == IF Ch(s, p) = "-" THEN p + 1 ELSE p
        i1 == IF Ch(s, i0) = "0" THEN i0 + 1 ELSE ScanDigits(s, i0)
        f1 == IF Ch(s, i1) = "." THEN ScanDigits(s, i1 + 1) ELSE i1
        e  == IF f1 > i1 + 1 THEN f1 ELSE i1
    IN  IF i1 = i0 THEN Fail ELSE Ok(JNum(SubSeq(s, p, e - 1)), e)

ParseLit(s, p) ==
    IF StartsAt(s, p, "true") THEN Ok(JLit("true"), p + 4)
    ELSE IF StartsAt(s, p, "false") THEN Ok(JLit("false"), p + 5)
    ELSE IF StartsAt(s, p, "null") THEN Ok(JLit("null"), p + 4)
    ELSE Fail

\* d[k] = v on a dict kept as the sequence of its items.
DictSet(items, k, v) ==
    IF \E i \in 1..Len(items) : items[i][1] = k
    THEN [i \in 1..Len(items) |-> IF items[i][1] = k THEN <<k, v>> ELSE items[i]]
    ELSE Append(items, <<k, v>>)

RECURSIVE ParseValue(_, _)
RECURSIVE ParseMembers(_, _, _)
RECURSIVE ParseElems(_, _, _)

ParseValue(s, p0) ==
    LET p == SkipWs(s, p0)
        c == Ch(s, p)
    IN  IF c = "{"
        THEN LET q == SkipWs(s, p + 1)
             IN  IF Ch(s, q) = "}" THEN Ok(JObj(<<>>), q + 1)
                 ELSE ParseMembers(s, q, <<>>)
        ELSE IF c = "["
        THEN LET q == SkipWs(s, p + 1)
             IN  IF Ch(s, q) = "]" THEN Ok(JArr(<<>>), q + 1)
                 ELSE ParseElems(s, q, <<>>)
        ELSE IF c = "\"" THEN ParseString(s, p)
        ELSE IF c = "-" \/ (c # "" /\ InStr(c, Digits)) THEN ParseNumber(s, p)
        ELSE ParseLit(s, p)

\* p is at the first character of a key.
ParseMembers(s, p, acc) ==
    IF Ch(s, p) # "\"" THEN Fail
    ELSE LET k == ParseString(s, p)
         IN  IF ~k.ok THEN Fail
             ELSE LET p2 == SkipWs(s, k.p)
                  IN  IF Ch(s, p2) # ":" THEN Fail
                      ELSE LET val == ParseValue(s, p2 + 1)
                           IN  IF ~val.ok THEN Fail
                               ELSE LET p3 == SkipWs(s, val.p)
                                        acc2 == DictSet(acc, k.v[1].v, val.v[1])
                                    IN  IF Ch(s, p3) = "}" THEN Ok(JObj(acc2), p3 + 1)
                                        ELSE IF Ch(s, p3) = ","
                                        THEN ParseMembers(s, SkipWs(s, p3 + 1), acc2)
                                        ELSE Fail

\* p is at the first character of an element.
ParseElems(s, p, acc) ==
    LET val == ParseValue(s, p)
    IN  IF ~val.ok THEN Fail
        ELSE LET p3 == SkipWs(s, val.p)
                 acc2 == Append(acc, val.v[1])
             IN  IF Ch(s, p3) = "]" THEN Ok(JArr(acc2), p3 + 1)
                 ELSE IF Ch(s, p3) = "," THEN ParseElems(s, p3 + 1, acc2)
                 ELSE Fail

\* The decoded value, or a failure (json.JSONDecodeError) when the text is
\* not one JSON value followed by nothing but white space.
json_loads(s) ==
    LET r == ParseValue(s, 1)
    IN  IF r.ok /\ SkipWs(s, r.p) = Len(s) + 1 THEN r ELSE Fail

(***************************************************************************)
(* The client object and its callers                                       *)
(***************************************************************************)
Threads == {"t1", "t2"}

\* An absent value (None, no attribute, no argument) is the empty sequence,
\* a present one the sequence of that value alone.
None == <<>>

Some(x) == <<x>>

\* SetAttr with the slip of building the URL in place: baseurl is assigned too.
SetAttr_AlsoBase(self, name, value) ==
    [a \in DOMAIN self \cup {name} |-> IF a \in {name, "baseurl"} THEN value ELSE self[a]]

\* self.<name> = value on the instance dictionary.
SetAttr(self, name, value) ==
    [a \in DOMAIN self \cup {name} |-> IF a = name THEN value ELSE self[a]]

\* ShapeShiftIO.__init__
NewClient == [baseurl |-> "https://shapeshift.io"]

\* recent_tx(self, max_results=5)
DefaultMaxResults == 5

(***************************************************************************)
(* The right-hand side of each method's first statement.                   *)
(***************************************************************************)
rate_url(self, pair) == self.baseurl \o "/rate/" \o pair

limit_url(self, pair) == self.baseurl \o "/limit/" \o pair

market_info_url(self, pair) == self.baseurl \o "/marketinfo/" \o pair

\* recent_tx_url with the documented range 1..50 enforced by clamping.
recent_tx_url_clamped(self, max_results) ==
    self.baseurl \o "/recenttx/" \o
        Str(IF max_results < 1 THEN 1 ELSE IF max_results > 50 THEN 50 ELSE max_results)

recent_tx_url(self, max_results) == self.baseurl \o "/recenttx/" \o Str(max_results)

tx_status_url(self, address) == self.baseurl \o "/txStat/" \o address

time_remaining_url(self, address) == self.baseurl \o "/timeremaining/" \o address

coin_list_url(self) == self.baseurl \o "/getcoins"

tx_by_apikey_url(self, apiKey) == self.baseurl \o "/txbyapikey/" \o apiKey

\* tx_by_address_url with the segments in the order of the signature.
tx_by_address_url_swapped(self, apiKey, address) ==
    self.baseurl \o "/txbyaddress/" \o apiKey \o "/" \o address

tx_by_address_url(self, apiKey, address) ==
    self.baseurl \o "/txbyaddress/" \o address \o "/" \o apiKey

validate_address_url(self, address, coin) ==
    self.baseurl \o "/validateAddress/" \o address \o "/" \o coin

shift_url(self) == self.baseurl \o "/shift"

set_mail_url(self) == self.baseurl \o "/mail"

send_amount_url(self) == self.baseurl \o "/sendamount"

cancel_pending_url(self) == self.baseurl \o "/cancelpending"

GetOps == {"rate", "limit", "market_info", "recent_tx", "tx_status",
           "time_remaining", "coin_list", "tx_by_apikey", "tx_by_address",
           "validate_address"}

PostOps == {"shift", "set_mail", "send_amount", "cancel_pending"}

\* A call: the method and its arguments.  a1, a2 are the string arguments in
\* the order of the signature, n is the max_results argument (None when the
\* caller leaves it out), data the parameter mapping; the fields a method
\* does not take stay empty.
Call(op, a1, a2, n, data) == [op |-> op, a1 |-> a1, a2 |-> a2, n |-> n, data |-> data]

NoCall == Call("", "", "", None, <<>>)

\* The URL a call's first statement assigns to self.url.
MethodUrl(self, c) ==
    CASE c.op = "rate" -> rate_url(self, c.a1)
      [] c.op = "limit" -> limit_url(self, c.a1)
      [] c.op = "market_info" -> market_info_url(self, c.a1)
      [] c.op = "recent_tx" ->
            recent_tx_url(self, IF c.n = None THEN DefaultMaxResults ELSE c.n[1])
      [] c.op = "tx_status" -> tx_status_url(self, c.a1)
      [] c.op = "time_remaining" -> time_remaining_url(self, c.a1)
      [] c.op = "coin_list" -> coin_list_url(self)
      [] c.op = "tx_by_apikey" -> tx_by_apikey_url(self, c.a1)
      [] c.op = "tx_by_address" -> tx_by_address_url(self, c.a1, c.a2)
      [] c.op = "validate_address" -> validate_address_url(self, c.a1, c.a2)
      [] c.op = "shift" -> shift_url(self)
      [] c.op = "set_mail" -> set_mail_url(self)
      [] c.op = "send_amount" -> send_amount_url(self)
      [] c.op = "cancel_pending" -> cancel_pending_url(self)

(***************************************************************************)
(* The arguments and replies the model draws from                         *)
(***************************************************************************)
Pairs == {"", "btc_ltc", "ltc_btc"}

Addresses == {"1HB5", "r9?dt=1"}

ApiKeys == {"k1"}

Coins == {"btc"}

MaxResultsArgs == {0 - 1, 0, 1, 5, 50, 51}

ShiftData == << <<"withdrawal", SVal("W")>>, <<"pair", SVal("btc_ltc")>>,
                <<"returnAddress", SVal("R")>> >>

MailData == << <<"email", SVal("mail@example.com")>>, <<"txid", SVal("123ABC")>> >>

QuoteData == << <<"amount", NVal(123)>>, <<"pair", SVal("ltc_btc")>> >>

CancelData == << <<"address", SVal("1HB5")>> >>

OddData == << <<"withdrawal", SVal("r9 x&y=z+1")>> >>

Postdatas == {<<>>, ShiftData, MailData, QuoteData, CancelData, OddData}

BodyError == "{\"error\":\"already sent\"}"

BodyFailed == "{\"status\":\"failed\",\"error\":\"x\"}"

BodyObject == "{\"pair\":\"btc_ltc\",\"rate\":\"70.1234\"}"

BodyArray == "[{\"pair\":\"btc_ltc\",\"min\":0.02},{\"pair\":\"ltc_btc\",\"min\":1}]"

BodyNotJson == "<html>502</html>"

Bodies == {BodyError, BodyFailed, BodyObject, BodyArray, BodyNotJson}

\* Statuses for which urllib raises HTTPError.
ErrorStatuses == {404, 500}

\* The arguments and replies a specification draws from, and where a caller
\* may enter a call from: all of the above for one caller making call after
\* call, fewer of each for callers that make one call each side by side.
Wide == [from |-> {"idle", "done"}, pairs |-> Pairs, addresses |-> Addresses, apiKeys |-> ApiKeys,
         coins |-> Coins, max_results |-> MaxResultsArgs,
         postdatas |-> Postdatas, bodies |-> Bodies, statuses |-> ErrorStatuses]

Narrow == [from |-> {"idle"}, pairs |-> {"btc_ltc"}, addresses |-> {"1HB5"}, apiKeys |-> {"k1"},
           coins |-> {"btc"}, max_results |-> {51},
           postdatas |-> {ShiftData, CancelData},
           bodies |-> {BodyError, BodyArray, BodyNotJson}, statuses |-> {500}]

(***************************************************************************)
(* State                                                                   *)
(*   attrs     the instance dictionary of the one client object            *)
(*   pc        where each caller is: "idle", "built" (self.url assigned),  *)
(*             "sent" (urlopen has issued the request), "replied" (urlopen *)
(*             returned a response), "done" (the call returned or raised)  *)
(*   call      the caller's current call                                   *)
(*   req       the request urlopen issued for it (local to urlopen)        *)
(*   nsent     how many requests the call has issued                       *)
(*   resp      the body of the response it received                        *)
(*   result    how the call ended and the value it returned                *)
(*   pre       history: attrs as they were when the call was entered       *)
(*   round     history: how many times the call was repeated unchanged     *)
(*   first     history: request and attrs of the first call of the round   *)
(***************************************************************************)
NoResult == [kind |-> "none", exc |-> "", value |-> None]

Init == /\ attrs = NewClient
        /\ pc = [t \in Threads |-> "idle"]
        /\ call = [t \in Threads |-> NoCall]
        /\ pre = [t \in Threads |-> NewClient]
        /\ req = [t \in Threads |-> None]
        /\ nsent = [t \in Threads |-> 0]
        /\ resp = [t \in Threads |-> None]
        /\ result = [t \in Threads |-> NoResult]
        /\ round = [t \in Threads |-> 0]
        /\ first = [t \in Threads |-> None]

\* A method's first statement, self.url = <URL>, on a fresh frame.
Enter(t, c) ==
    /\ attrs' = SetAttr(attrs, "url", MethodUrl(attrs, c))
    /\ pc' = [pc EXCEPT ![t] = "built"]
    /\ call' = [call EXCEPT ![t] = c]
    /\ pre' = [pre EXCEPT ![t] = attrs]
    /\ req' = [req EXCEPT ![t] = None]
    /\ nsent' = [nsent EXCEPT ![t] = 0]
    /\ resp' = [resp EXCEPT ![t] = None]
    /\ result' = [result EXCEPT ![t] = NoResult]
    /\ round' = [round EXCEPT ![t] = 0]
    /\ first' = [first EXCEPT ![t] = None]

rate(t, U) ==
    /\ pc[t] \in U.from
    /\ \E pair \in U.pairs : Enter(t, Call("rate", pair, "", None, <<>>))

limit(t, U) ==
    /\ pc[t] \in U.from
    /\ \E pair \in U.pairs : Enter(t, Call("limit", pair, "", None, <<>>))

market_info(t, U) ==
    /\ pc[t] \in U.from
    /\ \E pair \in U.pairs : Enter(t, Call("market_info", pair, "", None, <<>>))

\* max_results is given or left out.
recent_tx(t, U) ==
    /\ pc[t] \in U.from
    /\ \E arg \in {None} \cup {Some(n) : n \in U.max_results} :
          Enter(t, Call("recent_tx", "", "", arg, <<>>))

tx_status(t, U) ==
    /\ pc[t] \in U.from
    /\ \E address \in U.addresses : Enter(t, Call("tx_status", address, "", None, <<>>))

time_remaining(t, U) ==
    /\ pc[t] \in U.from
    /\ \E address \in U.addresses :
          Enter(t, Call("time_remaining", address, "", None, <<>>))

coin_list(t, U) ==
    /\ pc[t] \in U.from
    /\ Enter(t, Call("coin_list", "", "", None, <<>>))

tx_by_apikey(t, U) ==
    /\ pc[t] \in U.from
    /\ \E apiKey \in U.apiKeys : Enter(t, Call("tx_by_apikey", apiKey, "", None, <<>>))

tx_by_address(t, U) ==
    /\ pc[t] \in U.from
    /\ \E apiKey \in U.apiKeys, address \in U.addresses :
          Enter(t, Call("tx_by_address", apiKey, address, None, <<>>))

validate_address(t, U) ==
    /\ pc[t] \in U.from
    /\ \E address \in U.addresses, coin \in U.coins :
          Enter(t, Call("validate_address", address, coin, None, <<>>))

shift(t, U) ==
    /\ pc[t] \in U.from
    /\ \E postdata \in U.postdatas : Enter(t, Call("shift", "", "", None, postdata))

set_mail(t, U) ==
    /\ pc[t] \in U.from
    /\ \E postdata \in U.postdatas : Enter(t, Call("set_mail", "", "", None, postdata))

send_amount(t, U) ==
    /\ pc[t] \in U.from
    /\ \E postdata \in U.postdatas : Enter(t, Call("send_amount", "", "", None, postdata))

cancel_pending(t, U) ==
    /\ pc[t] \in U.from
    /\ \E postdata \in U.postdatas :
          Enter(t, Call("cancel_pending", "", "", None, postdata))

(***************************************************************************)
(* urllib.request.urlopen(url, data=None): the request it puts on the      *)
(* wire.  Request.get_method gives POST exactly when data is not None.     *)
(***************************************************************************)
urlopen(url, data) ==
    [method |-> IF data = None THEN "GET" ELSE "POST", url |-> url, data |-> data]

\* Raise with one retry: a transport failure has the request issued again
\* before it is let out.
Raise_AfterRetry(t, exc) ==
    IF exc \in {"URLError", "HTTPError"} /\ nsent[t] < 2
    THEN /\ nsent' = [nsent EXCEPT ![t] = @ + 1]
         /\ UNCHANGED <<attrs, pc, call, pre, req, resp, result, round, first>>
    ELSE /\ pc' = [pc EXCEPT ![t] = "done"]
         /\ result' = [result EXCEPT ![t] =
                         [kind |-> "raised", exc |-> exc, value |-> None]]
         /\ UNCHANGED <<attrs, call, pre, req, nsent, resp, round, first>>

\* The call ends by an exception leaving the method: nothing catches one.
Raise(t, exc) ==
    /\ pc' = [pc EXCEPT ![t] = "done"]
    /\ result' = [result EXCEPT ![t] = [kind |-> "raised", exc |-> exc, value |-> None]]
    /\ UNCHANGED <<attrs, call, pre, req, nsent, resp, round, first>>

\* Return that turns a decoded object with an error key into an exception.
Return_RaiseOnError(t, value) ==
    /\ pc' = [pc EXCEPT ![t] = "done"]
    /\ result' = [result EXCEPT ![t] =
                    IF value.t = "obj" /\ \E i \in DOMAIN value.v : value.v[i][1] = "error"
                    THEN [kind |-> "raised", exc |-> "ShapeShiftError", value |-> None]
                    ELSE [kind |-> "returned", exc |-> "", value |-> Some(value)]]
    /\ UNCHANGED <<attrs, call, pre, req, nsent, resp, round, first>>

\* Return that gives a decoded list back as its first element.
Return_FirstOfList(t, value) ==
    /\ pc' = [pc EXCEPT ![t] = "done"]
    /\ result' = [result EXCEPT ![t] =
                    [kind |-> "returned", exc |-> "",
                     value |-> IF value.t = "arr" /\ Len(value.v) > 0
                               THEN Some(value.v[1]) ELSE Some(value)]]
    /\ UNCHANGED <<attrs, call, pre, req, nsent, resp, round, first>>

\* The call ends by returning the decoded value as it is.
Return(t, value) ==
    /\ pc' = [pc EXCEPT ![t] = "done"]
    /\ result' = [result EXCEPT ![t] =
                    [kind |-> "returned", exc |-> "", value |-> Some(value)]]
    /\ UNCHANGED <<attrs, call, pre, req, nsent, resp, round, first>>

\* urlopen issues the request to the URL it was handed.
Issue(t, url, data) ==
    /\ req' = [req EXCEPT ![t] = Some(urlopen(url, data))]
    /\ nsent' = [nsent EXCEPT ![t] = @ + 1]
    /\ pc' = [pc EXCEPT ![t] = "sent"]
    /\ UNCHANGED <<attrs, call, pre, resp, result, round, first>>

\* get_request with a cache: a URL requested before is answered from a
\* stored reply and no request is issued.
get_request_cached(t) ==
    /\ pc[t] = "built"
    /\ call[t].op \in GetOps
    /\ IF first[t] # None /\ first[t][1].req # None
          /\ first[t][1].req[1].url = attrs["url"]
       THEN /\ pc' = [pc EXCEPT ![t] = "replied"]
            /\ resp' = [resp EXCEPT ![t] = Some(BodyObject)]
            /\ UNCHANGED <<attrs, call, pre, req, nsent, result, round, first>>
       ELSE Issue(t, attrs["url"], None)

\* return self.get_request(self.url): self.url is read now, then urlopen(url).
get_request(t) ==
    /\ pc[t] = "built"
    /\ call[t].op \in GetOps
    /\ Issue(t, attrs["url"], None)

\* return self.post_request(self.url, postdata):
\* urlopen(url, urlencode(postdata).encode())
post_request(t) ==
    /\ pc[t] = "built"
    /\ call[t].op \in PostOps
    /\ Issue(t, attrs["url"], Some(urlencode(call[t].data)))

\* The transport fails (DNS, connection, TLS): urlopen raises URLError.
urlopen_URLError(t) ==
    /\ pc[t] = "sent"
    /\ Raise(t, "URLError")

\* The server answers with an error status: urlopen raises HTTPError.
urlopen_HTTPError(t, U) ==
    /\ pc[t] = "sent"
    /\ \E status \in U.statuses : Raise(t, "HTTPError")

\* The server answers 200 with some body: urlopen returns the response.
urlopen_response(t, U) ==
    /\ pc[t] = "sent"
    /\ \E body \in U.bodies : resp' = [resp EXCEPT ![t] = Some(body)]
    /\ pc' = [pc EXCEPT ![t] = "replied"]
    /\ UNCHANGED <<attrs, call, pre, req, nsent, result, round, first>>

\* return json.loads(ret.read())
get_request_loads(t) ==
    /\ pc[t] = "replied"
    /\ call[t].op \in GetOps
    /\ LET r == json_loads(resp[t][1])
       IN  IF r.ok THEN Return(t, r.v[1]) ELSE Raise(t, "JSONDecodeError")

\* return json.loads(ret.read().decode())
post_request_loads(t) ==
    /\ pc[t] = "replied"
    /\ call[t].op \in PostOps
    /\ LET r == json_loads(resp[t][1])
       IN  IF r.ok THEN Return(t, r.v[1]) ELSE Raise(t, "JSONDecodeError")

\* How many times a caller repeats a call with the same arguments.
MaxRepeat == 2

\* The caller makes the call it has just finished once more, unchanged.
Again(t) ==
    /\ pc[t] = "done"
    /\ round[t] < MaxRepeat
    /\ attrs' = SetAttr(attrs, "url", MethodUrl(attrs, call[t]))
    /\ pc' = [pc EXCEPT ![t] = "built"]
    /\ pre' = [pre EXCEPT ![t] = attrs]
    /\ first' = [first EXCEPT ![t] =
                   IF round[t] = 0
                   THEN Some([req |-> req[t], nsent |-> nsent[t], attrs |-> attrs])
                   ELSE @]
    /\ round' = [round EXCEPT ![t] = @ + 1]
    /\ req' = [req EXCEPT ![t] = None]
    /\ nsent' = [nsent EXCEPT ![t] = 0]
    /\ resp' = [resp EXCEPT ![t] = None]
    /\ result' = [result EXCEPT ![t] = NoResult]
    /\ UNCHANGED call

Step(t, U) ==
    \/ rate(t, U) \/ limit(t, U) \/ market_info(t, U) \/ recent_tx(t, U)
    \/ tx_status(t, U) \/ time_remaining(t, U) \/ coin_list(t, U)
    \/ tx_by_apikey(t, U) \/ tx_by_address(t, U) \/ validate_address(t, U)
    \/ shift(t, U) \/ set_mail(t, U) \/ send_amount(t, U) \/ cancel_pending(t, U)
    \/ get_request(t) \/ post_request(t)
    \/ urlopen_URLError(t) \/ urlopen_HTTPError(t, U) \/ urlopen_response(t, U)
    \/ get_request_loads(t) \/ post_request_loads(t)

\* Concurrent callers share the client: each makes one call, and the steps
\* of their calls interleave in every order.
Next == \E t \in Threads : Step(t, Narrow)

Spec == Init /\ [][Next]_vars

\* One caller: it makes call after call, each begun when the last has ended.
NextSeq == Step("t1", Wide) \/ Again("t1")

SpecSeq == Init /\ [][NextSeq]_vars

(***************************************************************************)
(* What a server reads out of a form-encoded body                          *)
(* (application/x-www-form-urlencoded), used to state what a POST carries. *)
(***************************************************************************)
IndexOf(s, c) ==
    IF InStr(c, s)
    THEN CHOOSE i \in 1..Len(s) : Ch(s, i) = c /\ \A j \in 1..(i - 1) : Ch(s, j) # c
    ELSE 0

RECURSIVE SplitOn(_, _)
SplitOn(s, c) ==
    LET i == IndexOf(s, c)
    IN  IF i = 0 THEN <<s>>
        ELSE <<SubSeq(s, 1, i - 1)>> \o SplitOn(Drop(s, i + 1), c)

HexVal(h) == (IndexOf(HexDigits, Ch(h, 1)) - 1) * 16 + (IndexOf(HexDigits, Ch(h, 2)) - 1)

RECURSIVE unquote_plus(_)
unquote_plus(s) ==
    IF Len(s) = 0 THEN ""
    ELSE IF Ch(s, 1) = "+" THEN " " \o unquote_plus(Drop(s, 2))
    ELSE IF Ch(s, 1) = "%" /\ Len(s) >= 3
    THEN Chr(HexVal(SubSeq(s, 2, 3))) \o unquote_plus(Drop(s, 4))
    ELSE Ch(s, 1) \o unquote_plus(Drop(s, 2))

FormFields(body) ==
    IF body = "" THEN <<>>
    ELSE LET fs == SplitOn(body, "&")
         IN  [i \in 1..Len(fs) |->
                LET e == IndexOf(fs[i], "=")
                IN  IF e = 0 THEN <<unquote_plus(fs[i]), "">>
                    ELSE <<unquote_plus(SubSeq(fs[i], 1, e - 1)),
                           unquote_plus(Drop(fs[i], e + 1))>>]

Range(f) == {f[i] : i \in DOMAIN f}

\* The key/value pairs of a caller's mapping, as the text a form carries.
Pairs_of(postdata) == {<<postdata[i][1], StrOf(postdata[i][2])>> : i \in DOMAIN postdata}

Host == "https://shapeshift.io"

Finished(t) == pc[t] = "done"

Returned(t) == pc[t] = "done" /\ result[t].kind = "returned"

Raised(t) == pc[t] = "done" /\ result[t].kind = "raised"

\* The decimal text of each max_results argument drawn, written out.
Literal(n) ==
    CASE n = None -> "5"
      [] n = Some(0 - 1) -> "-1"
      [] n = Some(0) -> "0"
      [] n = Some(1) -> "1"
      [] n = Some(5) -> "5"
      [] n = Some(50) -> "50"
      [] n = Some(51) -> "51"

(***************************************************************************)
(* The endpoint table of the interface: the path of each operation, with   *)
(* its arguments in place.                                                 *)
(***************************************************************************)
TablePath(c) ==
    CASE c.op = "rate" -> "/rate/" \o c.a1
      [] c.op = "limit" -> "/limit/" \o c.a1
      [] c.op = "market_info" -> "/marketinfo/" \o c.a1
      [] c.op = "recent_tx" -> "/recenttx/" \o Literal(c.n)
      [] c.op = "tx_status" -> "/txStat/" \o c.a1
      [] c.op = "time_remaining" -> "/timeremaining/" \o c.a1
      [] c.op = "coin_list" -> "/getcoins"
      [] c.op = "tx_by_apikey" -> "/txbyapikey/" \o c.a1
      [] c.op = "tx_by_address" -> "/txbyaddress/" \o c.a2 \o "/" \o c.a1
      [] c.op = "validate_address" -> "/validateAddress/" \o c.a1 \o "/" \o c.a2
      [] c.op = "shift" -> "/shift"
      [] c.op = "set_mail" -> "/mail"
      [] c.op = "send_amount" -> "/sendamount"
      [] c.op = "cancel_pending" -> "/cancelpending"

\* The decoded value of each JSON body drawn, written out.
ErrorValue == JObj(<< <<"error", JStr("already sent")>> >>)

FailedValue == JObj(<< <<"status", JStr("failed")>>, <<"error", JStr("x")>> >>)

ObjectValue == JObj(<< <<"pair", JStr("btc_ltc")>>, <<"rate", JStr("70.1234")>> >>)

ArrayValue == JArr(<< JObj(<< <<"pair", JStr("btc_ltc")>>, <<"min", JNum("0.02")>> >>),
                      JObj(<< <<"pair", JStr("ltc_btc")>>, <<"min", JNum("1")>> >>) >>)

\* The call of t returned a value of the given shape, equal to the given one.
ReturnedValue(t, shape, value) ==
    /\ Returned(t)
    /\ result[t].value # None
    /\ result[t].value[1].t = shape
    /\ result[t].value[1] = value

\* C1: when calls run concurrently on one client, each call's request goes
\* to the URL built from that call's own arguments, under every interleaving.
C1_OwnUrl ==
    \A t \in Threads :
        req[t] # None => req[t][1].url = MethodUrl(NewClient, call[t])

\* C2: the instance attributes and their values after a call are those from
\* before the call, for every operation and every argument.
C2_AttrsAsBefore ==
    \A t \in Threads : Finished(t) => attrs = pre[t]

\* C3: baseurl keeps the value the constructor gave it in every reachable
\* state, whatever calls interleave and however they end, and every request
\* issued starts with that base URL.
C3_BaseUrlFixed ==
    /\ "baseurl" \in DOMAIN attrs
    /\ attrs["baseurl"] = Host
    /\ \A t \in Threads : req[t] # None => StartsAt(req[t][1].url, 1, Host)

C3_Witness ==
    /\ Raised("t1") /\ Returned("t2")
    /\ call["t1"].op \in PostOps /\ call["t2"].op \in GetOps
    /\ "url" \in DOMAIN attrs

\* C4: every GET operation issues one request, a GET without body, to the
\* base URL followed by the path of the endpoint table with the arguments
\* put in unchanged; tx_by_address puts the address before the apiKey.
C4_GetUrl ==
    \A t \in Threads :
        (call[t].op \in GetOps /\ req[t] # None) =>
            /\ req[t][1] = [method |-> "GET", url |-> Host \o TablePath(call[t]),
                            data |-> None]
            /\ nsent[t] = 1

C4_Witness ==
    /\ Returned("t1")
    /\ call["t1"] = Call("tx_by_address", "k1", "r9?dt=1", None, <<>>)
    /\ req["t1"][1].url = "https://shapeshift.io/txbyaddress/r9?dt=1/k1"

\* C5: every POST operation issues one request, a POST to the base URL
\* followed by /shift, /mail, /sendamount or /cancelpending, whose form body
\* carries exactly the key/value pairs of the caller's mapping.
C5_PostBody ==
    \A t \in Threads :
        (call[t].op \in PostOps /\ req[t] # None) =>
            /\ req[t][1].method = "POST"
            /\ req[t][1].url = Host \o TablePath(call[t])
            /\ req[t][1].data # None
            /\ Len(FormFields(req[t][1].data[1])) = Len(call[t].data)
            /\ Range(FormFields(req[t][1].data[1])) = Pairs_of(call[t].data)
            /\ nsent[t] = 1

C5_Witness ==
    /\ Returned("t1")
    /\ call["t1"].op = "shift" /\ call["t1"].data = ShiftData
    /\ req["t1"][1].url = "https://shapeshift.io/shift"
    /\ req["t1"][1].data = Some("withdrawal=W&pair=btc_ltc&returnAddress=R")

\* C6: recent_tx without argument requests /recenttx/5 and recent_tx(n)
\* requests /recenttx/n with n as written, also for n outside 1..50: the
\* request is issued and the call is not rejected by the client.
C6_RecentTx ==
    \A t \in Threads :
        call[t].op = "recent_tx" =>
            /\ req[t] # None =>
                 req[t][1] = [method |-> "GET",
                              url |-> Host \o "/recenttx/" \o Literal(call[t].n),
                              data |-> None]
            /\ Finished(t) =>
                 /\ nsent[t] = 1
                 /\ result[t].exc \in {"", "URLError", "HTTPError", "JSONDecodeError"}

C6_Witness ==
    /\ Returned("t1")
    /\ call["t1"].op = "recent_tx" /\ call["t1"].n = Some(51)
    /\ req["t1"][1].url = "https://shapeshift.io/recenttx/51"

\* C7: a 200 reply whose JSON body carries an error key makes the call
\* return the decoded body; no operation raises because of the key.
C7_ErrorsAsData ==
    \A t \in Threads :
        Finished(t) =>
            /\ resp[t] = Some(BodyError) => ReturnedValue(t, "obj", ErrorValue)
            /\ resp[t] = Some(BodyFailed) => ReturnedValue(t, "obj", FailedValue)

C7_Witness ==
    /\ call["t1"].op = "cancel_pending" /\ call["t1"].data = CancelData
    /\ resp["t1"] = Some(BodyError)
    /\ ReturnedValue("t1", "obj", ErrorValue)

\* C8: a call issues exactly one request; when the transport fails (no
\* connection, or an error status) the call raises that failure, issues no
\* second request and returns no value.
C8_NoRetry ==
    \A t \in Threads :
        /\ nsent[t] <= 1
        /\ Finished(t) => nsent[t] = 1
        /\ (pc[t] = "done" /\ resp[t] = None) =>
              /\ result[t].kind = "raised"
              /\ result[t].exc \in {"URLError", "HTTPError"}
              /\ result[t].value = None

C8_Witness ==
    /\ Raised("t1") /\ result["t1"].exc = "HTTPError" /\ nsent["t1"] = 1
    /\ Raised("t2") /\ result["t2"].exc = "URLError" /\ nsent["t2"] = 1

\* C9: a GET operation called again with the same arguments issues a
\* request of its own to the same URL, and leaves the client's attributes
\* as the first call left them.
C9_NoCaching ==
    \A t \in Threads :
        (round[t] >= 1 /\ call[t].op \in GetOps /\ Finished(t)) =>
            /\ first[t] # None
            /\ first[t][1].nsent = 1
            /\ nsent[t] = 1
            /\ req[t] # None
            /\ req[t] = first[t][1].req
            /\ attrs = first[t][1].attrs

C9_Witness ==
    /\ round["t1"] = 1
    /\ call["t1"] = Call("rate", "btc_ltc", "", None, <<>>)
    /\ Returned("t1")
    /\ nsent["t1"] = 1 /\ first["t1"][1].nsent = 1

\* C10: the value a call returns is the decoding of the body of its reply,
\* whatever its shape: market_info("") requests /marketinfo/ and returns an
\* array reply as an array, market_info("btc_ltc") requests
\* /marketinfo/btc_ltc and returns an object reply as an object.
C10_ReturnsDecoded ==
    \A t \in Threads :
        Finished(t) =>
            /\ resp[t] = Some(BodyArray) => ReturnedValue(t, "arr", ArrayValue)
            /\ resp[t] = Some(BodyObject) => ReturnedValue(t, "obj", ObjectValue)
            /\ resp[t] = Some(BodyNotJson) =>
                  /\ result[t].kind = "raised"
                  /\ result[t].exc = "JSONDecodeError"
            /\ (call[t].op = "market_info" /\ call[t].a1 = "") =>
                  req[t][1].url = "https://shapeshift.io/marketinfo/"
            /\ (call[t].op = "market_info" /\ call[t].a1 = "btc_ltc") =>
                  req[t][1].url = "https://shapeshift.io/marketinfo/btc_ltc"

C10_Witness ==
    /\ call["t1"] = Call("market_info", "", "", None, <<>>)
    /\ resp["t1"] = Some(BodyArray)
    /\ ReturnedValue("t1", "arr", ArrayValue)
    /\ Len(result["t1"].value[1].v) = 2

====
